---------------------------- MODULE Spec2Model ----------------------------
(***************************************************************************)
(* Model of main.go of go_ai_web_scraper: the chunker (splitDOMContent),   *)
(* the model invoker and aggregator (parseWithGenAI), the output formatter *)
(* (printFormatted) and the interactive loop of main with its signal       *)
(* listener goroutine.                                                     *)
(*                                                                         *)
(* A Go string is a sequence of bytes; it is modelled as a sequence of     *)
(* natural numbers (byte values).  Slices d[lo:hi] use Go's 0-based,       *)
(* half-open offsets.                                                      *)
(***************************************************************************)
EXTENDS Integers, Sequences, FiniteSets, TLC

VARIABLES
    \* splitDOMContent (main.go:57-67)
    domContent,     \* parameter domContent
    maxLength,      \* parameter maxLength
    splitI,         \* loop variable i
    chunks,         \* local chunks
    splitPc,        \* "idle" | "loop" | "returned" | "panic"
    \* printFormatted (main.go:118-130)
    wrapInput,      \* the argument text as passed by the caller
    text,           \* parameter text, reassigned by the loop
    lineWidth,      \* parameter lineWidth
    result,         \* strings.Builder result
    wrapPc,         \* "idle" | "loop" | "returned"
    \* parseWithGenAI (main.go:69-116)
    apiKey,         \* os.Getenv("GEMINI_API_KEY"): TRUE when non-empty
    remote,         \* behaviour of the remote service during this batch
    domChunks,      \* parameter domChunks
    parseDescription, \* parameter parseDescription
    clientOpen,     \* a genai client exists and is not closed
    clientsCreated, \* number of genai.NewClient calls made
    results,        \* local results
    parseI,         \* loop variable i (0-based)
    inflight,       \* TRUE while model.GenerateContent is blocked on the network
    calls,          \* every GenerateContent call issued: <<instruction, chunk>>
    events,         \* call starts and completions in the order they happened
    ret,            \* return value of parseWithGenAI: [val, err]
    parsePc,        \* "idle" | "entry" | "client" | "loop" | "call" | "returned"
    \* main (main.go:139-201)
    mainPc,         \* position of the main goroutine
    iter,           \* number of loop iterations started
    stdout,         \* everything printed, in order
    deferred,       \* number of deferred cancel functions (main.go:166)
    signalChan,     \* number of signals buffered in signalChan (capacity 1)
    sigAt,          \* where the main goroutine was when a termination signal
                    \* was delivered to the process; "none" before that
    listenerPc,     \* the listener goroutine: "waiting" | "received" | "done"
    exitCode        \* "running" | "exit0" (os.Exit(0)) | "return" | "fatal"

splitVars == <<domContent, maxLength, splitI, chunks, splitPc>>
wrapVars  == <<wrapInput, text, lineWidth, result, wrapPc>>
parseVars == <<apiKey, remote, domChunks, parseDescription, clientOpen,
               clientsCreated, results, parseI, inflight, calls, events,
               ret, parsePc>>
mainVars  == <<mainPc, iter, stdout, deferred, signalChan, sigAt,
               listenerPc, exitCode>>
vars == <<splitVars, wrapVars, parseVars, mainVars>>

-----------------------------------------------------------------------------
(* Bounds of the model *)

\* longest document / text drawn as an input of the chunker and the formatter
MaxDocLen == 4
\* largest chunk length / line width drawn as an input
MaxLen == 3

-----------------------------------------------------------------------------
(* Byte strings *)

\* the byte '\n' written by main.go:108, 122, 125 and used by strings.Join
NL == 10

\* the bytes input strings are drawn from: 'a', 'b' and '\n'
InputBytes == {97, 98, NL}

\* all byte strings over S of length at most n
StringsUpTo(S, n) == UNION {[1..k -> S] : k \in 0..n}

\* Go's s[lo:hi] (0-based, half-open), defined when 0 <= lo <= hi <= len(s)
Slice(s, lo, hi) == SubSeq(s, lo + 1, hi)

\* Go's slice bounds check: s[lo:hi] panics unless 0 <= lo <= hi <= len(s)
SliceInRange(s, lo, hi) == 0 <= lo /\ lo <= hi /\ hi <= Len(s)

RECURSIVE Concat(_)
\* concatenation of a sequence of strings, in order
Concat(ss) == IF ss = <<>> THEN <<>> ELSE Head(ss) \o Concat(Tail(ss))

min(a, b) == IF a < b THEN a ELSE b

-----------------------------------------------------------------------------
(* splitDOMContent, main.go:57-67 *)

\* the loop condition of main.go:59, with the bound test off by one so that
\* an extra iteration runs at i = len(domContent)
splitCondInclusive(D, i) == i <= Len(D)

\* main.go:59: i < len(domContent)
splitCond(D, i) == i < Len(D)

\* main.go:60-63 without the clamp of end to len(domContent) being exact:
\* the chunk stops one byte short
splitEndShort(i, L, n) == IF i + L > n THEN n - 1 ELSE i + L

\* main.go:60-63: end := i + maxLength; if end > len(domContent) { end = len }
splitEnd(i, L, n) == IF i + L > n THEN n ELSE i + L

\* main.go:59: i += maxLength
splitAdvance(i, L) == i + L

\* iterations of the loop of main.go:59 the model follows before it stops
\* looking; with maxLength > 0 the loop ends after at most MaxDocLen of them
MaxSplitIters == MaxDocLen + 2

\* an iteration whose slice expression domContent[i:end] is in range
SplitAppend ==
    /\ splitPc = "loop"
    /\ splitCond(domContent, splitI)
    /\ Len(chunks) < MaxSplitIters
    /\ LET end == splitEnd(splitI, maxLength, Len(domContent)) IN
        /\ SliceInRange(domContent, splitI, end)
        /\ chunks' = Append(chunks, Slice(domContent, splitI, end))
    /\ splitI' = splitAdvance(splitI, maxLength)
    /\ UNCHANGED <<domContent, maxLength, splitPc>>
    /\ UNCHANGED <<wrapVars, parseVars, mainVars>>

\* an iteration whose slice expression is out of range: a run-time panic
SplitPanic ==
    /\ splitPc = "loop"
    /\ splitCond(domContent, splitI)
    /\ ~SliceInRange(domContent, splitI,
                     splitEnd(splitI, maxLength, Len(domContent)))
    /\ splitPc' = "panic"
    /\ UNCHANGED <<domContent, maxLength, splitI, chunks>>
    /\ UNCHANGED <<wrapVars, parseVars, mainVars>>

\* main.go:66: the loop condition is false, return chunks
SplitReturn ==
    /\ splitPc = "loop"
    /\ ~splitCond(domContent, splitI)
    /\ splitPc' = "returned"
    /\ UNCHANGED <<domContent, maxLength, splitI, chunks>>
    /\ UNCHANGED <<wrapVars, parseVars, mainVars>>

RECURSIVE splitLoop(_, _, _, _)
\* the loop of main.go:59-65 run to completion (maxLength > 0)
splitLoop(D, L, i, acc) ==
    IF splitCond(D, i)
    THEN splitLoop(D, L, splitAdvance(i, L),
                   Append(acc, Slice(D, i, splitEnd(i, L, Len(D)))))
    ELSE acc

\* splitDOMContent(domContent, maxLength) for maxLength > 0
splitDOMContent(D, L) == splitLoop(D, L, 0, <<>>)

-----------------------------------------------------------------------------
(* printFormatted, main.go:118-130 *)

\* main.go:121: len(text) > lineWidth
wrapLong(t, w) == Len(t) > w

\* main.go:123 with the slice starting one byte late
wrapRestSkip(t, w) == Slice(t, w + 1, Len(t))

\* main.go:123: text = text[lineWidth:]
wrapRest(t, w) == Slice(t, w, Len(t))

\* main.go:122: result.WriteString(text[:lineWidth] + "\n")
wrapLine(t, w) == Slice(t, 0, w) \o <<NL>>

\* main.go:120-123: a full line is cut off the front of text
WrapFull ==
    /\ wrapPc = "loop"
    /\ Len(text) > 0
    /\ wrapLong(text, lineWidth)
    /\ result' = result \o wrapLine(text, lineWidth)
    /\ text' = wrapRest(text, lineWidth)
    /\ UNCHANGED <<wrapInput, lineWidth, wrapPc>>
    /\ UNCHANGED <<splitVars, parseVars, mainVars>>

\* main.go:124-127: the remainder is the last line
WrapLast ==
    /\ wrapPc = "loop"
    /\ Len(text) > 0
    /\ ~wrapLong(text, lineWidth)
    /\ result' = result \o text \o <<NL>>
    /\ text' = <<>>
    /\ UNCHANGED <<wrapInput, lineWidth, wrapPc>>
    /\ UNCHANGED <<splitVars, parseVars, mainVars>>

\* main.go:129: the loop condition len(text) > 0 is false
WrapReturn ==
    /\ wrapPc = "loop"
    /\ ~(Len(text) > 0)
    /\ wrapPc' = "returned"
    /\ UNCHANGED <<wrapInput, text, lineWidth, result>>
    /\ UNCHANGED <<splitVars, parseVars, mainVars>>

RECURSIVE wrapLoop(_, _, _)
\* the loop of main.go:120-128 run to completion (lineWidth > 0)
wrapLoop(t, w, acc) ==
    IF Len(t) > 0
    THEN IF wrapLong(t, w)
         THEN wrapLoop(wrapRest(t, w), w, acc \o wrapLine(t, w))
         ELSE wrapLoop(<<>>, w, acc \o t \o <<NL>>)
    ELSE acc

\* printFormatted(text, lineWidth) for lineWidth > 0
printFormatted(t, w) == wrapLoop(t, w, <<>>)

-----------------------------------------------------------------------------
(* parseWithGenAI, main.go:69-116 *)

\* main.go:85: maxChunks := 16
maxChunks == 16

\* longest chunk list drawn as an input of parseWithGenAI
MaxBatch == 17

\* main.go:86 without the cap: every chunk is submitted
chunkCountUncapped(cs) == Len(cs)

\* main.go:86: chunkCount := min(len(domChunks), maxChunks)
chunkCount(cs) == min(Len(cs), maxChunks)

\* the nil error
NoError == [msg |-> "nil", index |-> 0, cause |-> "nil"]

\* main.go:72: fmt.Errorf("GEMINI_API_KEY not set")
ErrNoKey == [msg |-> "GEMINI_API_KEY not set", index |-> 0, cause |-> "nil"]

\* main.go:78: fmt.Errorf("failed to create GenAI client: %w", err)
ErrClient(cause) ==
    [msg |-> "failed to create GenAI client", index |-> 0, cause |-> cause]

\* main.go:96: fmt.Errorf("failed to generate content for chunk %d: %w", i+1, err)
ErrChunk(i, cause) ==
    [msg |-> "failed to generate content for chunk", index |-> i + 1,
     cause |-> cause]

\* main.go:71 with the test dropped: a missing key is not noticed
keyMissingIgnored(key) == FALSE

\* main.go:71: apiKey == ""
keyMissing(key) == ~key

RECURSIVE Join(_, _)
\* strings.Join(elems, sep) for a one-byte separator (main.go:115)
Join(elems, sep) ==
    IF elems = <<>> THEN <<>>
    ELSE IF Len(elems) = 1 THEN elems[1]
    ELSE elems[1] \o <<sep>> \o Join(Tail(elems), sep)

\* main.go:104-108 without the WriteString("\n") of line 108
renderPartBare(part) == part

\* main.go:103-108: the part's text, then "\n"
renderPart(part) == part \o <<NL>>

RECURSIVE renderParts(_)
\* main.go:102-109: the loop over cand.Content.Parts
renderParts(parts) ==
    IF parts = <<>> THEN <<>>
    ELSE renderPart(Head(parts)) \o renderParts(Tail(parts))

RECURSIVE renderCandidates(_)
\* main.go:100-111: the loop over resp.Candidates, skipping nil Content
renderCandidates(cands) ==
    IF cands = <<>> THEN <<>>
    ELSE (IF Head(cands).hasContent THEN renderParts(Head(cands).parts)
          ELSE <<>>)
         \o renderCandidates(Tail(cands))

\* main.go:96 returning what was gathered so far instead of ""
failValuePartial(rs) == Join(rs, NL)

\* main.go:96: return "", ...
failValue(rs) == <<>>

RECURSIVE Decimal(_)
\* the decimal digits of a natural number, as bytes
Decimal(k) ==
    IF k < 10 THEN <<48 + k>> ELSE Decimal(k \div 10) \o <<48 + (k % 10)>>

\* the text "OK-k"
OKText(k) == <<79, 75, 45>> \o Decimal(k)

\* the shapes of response the remote service gives
Shapes == {"none", "text", "twoParts", "nilThenText"}

\* the response of the given shape to the k-th call: resp.Candidates
Response(shape, k) ==
    CASE shape = "none" -> <<>>
      [] shape = "text" -> <<[hasContent |-> TRUE, parts |-> <<OKText(k)>>]>>
      [] shape = "twoParts" ->
            <<[hasContent |-> TRUE, parts |-> <<OKText(k), <<98>>>>]>>
      [] shape = "nilThenText" ->
            <<[hasContent |-> FALSE, parts |-> <<>>],
              [hasContent |-> TRUE, parts |-> <<OKText(k)>>]>>

\* the remote service during one batch: the shape of its answer to call k is
\* shapes[k] (cyclically), call failAt fails (0: none does), and client
\* creation fails when clientErr
Remotes(maxFail) ==
    [shapes : [1..2 -> Shapes], failAt : 0..maxFail, clientErr : BOOLEAN]

\* the shape of the answer to the k-th call
ShapeOf(r, k) == r.shapes[((k - 1) % Len(r.shapes)) + 1]

\* main.go:70-73: no credential, return before any client is created
ParseNoKey ==
    /\ exitCode = "running"
    /\ parsePc = "entry"
    /\ keyMissing(apiKey)
    /\ ret' = [val |-> <<>>, err |-> ErrNoKey]
    /\ parsePc' = "returned"
    /\ UNCHANGED <<apiKey, remote, domChunks, parseDescription, clientOpen,
                   clientsCreated, results, parseI, inflight, calls, events>>
    /\ UNCHANGED <<splitVars, wrapVars, mainVars>>

\* main.go:76-79: genai.NewClient fails
ParseClientFail ==
    /\ exitCode = "running"
    /\ parsePc = "entry"
    /\ ~keyMissing(apiKey)
    /\ remote.clientErr
    /\ clientsCreated' = clientsCreated + 1
    /\ ret' = [val |-> <<>>, err |-> ErrClient("client")]
    /\ parsePc' = "returned"
    /\ UNCHANGED <<apiKey, remote, domChunks, parseDescription, clientOpen,
                   results, parseI, inflight, calls, events>>
    /\ UNCHANGED <<splitVars, wrapVars, mainVars>>

\* main.go:76-86: the client is created, results is empty, the loop starts
ParseClientOk ==
    /\ exitCode = "running"
    /\ parsePc = "entry"
    /\ ~keyMissing(apiKey)
    /\ ~remote.clientErr
    /\ clientsCreated' = clientsCreated + 1
    /\ clientOpen' = TRUE
    /\ results' = <<>>
    /\ parseI' = 0
    /\ parsePc' = "loop"
    /\ UNCHANGED <<apiKey, remote, domChunks, parseDescription, inflight,
                   calls, events, ret>>
    /\ UNCHANGED <<splitVars, wrapVars, mainVars>>

\* main.go:88-94: progress line, then GenerateContent is called and blocks
ParseCallStart ==
    /\ exitCode = "running"
    /\ parsePc = "loop"
    /\ parseI < chunkCount(domChunks)
    /\ stdout' = Append(stdout,
                   <<"Processing chunk", parseI + 1, chunkCount(domChunks)>>)
    /\ calls' = Append(calls, [instruction |-> parseDescription,
                               chunk |-> domChunks[parseI + 1]])
    /\ events' = Append(events, <<"start", parseI + 1>>)
    /\ inflight' = TRUE
    /\ parsePc' = "call"
    /\ UNCHANGED <<apiKey, remote, domChunks, parseDescription, clientOpen,
                   clientsCreated, results, parseI, ret>>
    /\ UNCHANGED <<splitVars, wrapVars>>
    /\ UNCHANGED <<mainPc, iter, deferred, signalChan, sigAt,
                   listenerPc, exitCode>>

\* main.go:95-112: the call returned a response; its text is appended
ParseCallOk ==
    /\ exitCode = "running"
    /\ parsePc = "call"
    /\ remote.failAt # parseI + 1
    /\ events' = Append(events, <<"done", parseI + 1>>)
    /\ inflight' = FALSE
    /\ results' = Append(results,
            renderCandidates(Response(ShapeOf(remote, parseI + 1), parseI + 1)))
    /\ parseI' = parseI + 1
    /\ parsePc' = "loop"
    /\ UNCHANGED <<apiKey, remote, domChunks, parseDescription, clientOpen,
                   clientsCreated, calls, ret>>
    /\ UNCHANGED <<splitVars, wrapVars, mainVars>>

\* main.go:95-97, 80: the call returned an error; the batch is abandoned
ParseCallFail ==
    /\ exitCode = "running"
    /\ parsePc = "call"
    /\ remote.failAt = parseI + 1
    /\ events' = Append(events, <<"failed", parseI + 1>>)
    /\ inflight' = FALSE
    /\ ret' = [val |-> failValue(results), err |-> ErrChunk(parseI, "transport")]
    /\ clientOpen' = FALSE
    /\ parsePc' = "returned"
    /\ UNCHANGED <<apiKey, remote, domChunks, parseDescription,
                   clientsCreated, results, parseI, calls>>
    /\ UNCHANGED <<splitVars, wrapVars, mainVars>>

\* main.go:88, 115, 80: the loop is over; the joined results are returned
ParseReturn ==
    /\ exitCode = "running"
    /\ parsePc = "loop"
    /\ ~(parseI < chunkCount(domChunks))
    /\ ret' = [val |-> Join(results, NL), err |-> NoError]
    /\ clientOpen' = FALSE
    /\ parsePc' = "returned"
    /\ UNCHANGED <<apiKey, remote, domChunks, parseDescription,
                   clientsCreated, results, parseI, inflight, calls, events>>
    /\ UNCHANGED <<splitVars, wrapVars, mainVars>>

-----------------------------------------------------------------------------
(* main, main.go:139-201 *)

\* main.go:182: splitDOMContent(cleanedContent, 6000)
chunkLength == 6000

\* main.go:199: printFormatted(parsedResult, 80)
lineWidthMain == 80

\* loop iterations of main the model follows
MaxIters == 2

\* unicode.IsSpace on the ASCII bytes: '\t' '\n' '\v' '\f' '\r' ' '
IsSpace(b) == b \in {9, 10, 11, 12, 13, 32}

RECURSIVE TrimLeft(_)
TrimLeft(s) ==
    IF s # <<>> /\ IsSpace(Head(s)) THEN TrimLeft(Tail(s)) ELSE s

RECURSIVE TrimRight(_)
TrimRight(s) ==
    IF s # <<>> /\ IsSpace(s[Len(s)])
    THEN TrimRight(SubSeq(s, 1, Len(s) - 1)) ELSE s

\* strings.TrimSpace (main.go:158, 190)
TrimSpace(s) == TrimRight(TrimLeft(s))

\* strings.ToLower on ASCII bytes (main.go:160)
ToLower(s) == [k \in 1..Len(s) |-> IF s[k] \in 65..90 THEN s[k] + 32 ELSE s[k]]

\* the bytes of "exit"
ExitWord == <<101, 120, 105, 116>>

\* main.go:158-160: the line read is the exit command
IsExit(line) == ToLower(TrimSpace(line)) = ExitWord

\* lines typed at the URL prompt: " Exit\n" and "u\n"
UrlLines == {<<32, 69, 120, 105, 116, 10>>, <<117, 10>>}

\* lines typed at the description prompt: "x \n"
DescriptionLines == {<<120, 32, 10>>}

\* a document of n bytes, 'a' and 'b' alternating
Doc(n) == [k \in 1..n |-> 97 + (k % 2)]

\* the cleaned page texts main sees: empty, one chunk, two chunks
MainDocs == {Doc(0), Doc(1), Doc(chunkLength + 1)}

\* the remote service's behaviours during a batch run from main
MainRemotes ==
    {r \in Remotes(2) : r.shapes[1] = "text" /\ r.shapes[2] \in {"text", "none"}}

\* the parameters, locals and observations of parseWithGenAI before a call
IdleRemote == [shapes |-> <<"none", "none">>, failAt |-> 0, clientErr |-> FALSE]
IdleRet == [val |-> <<>>, err |-> NoError]

ParseLocalsIdle ==
    /\ remote = IdleRemote
    /\ domChunks = <<>>
    /\ parseDescription = <<>>
    /\ clientOpen = FALSE
    /\ clientsCreated = 0
    /\ results = <<>>
    /\ parseI = 0
    /\ inflight = FALSE
    /\ calls = <<>>
    /\ events = <<>>
    /\ ret = IdleRet
    /\ parsePc = "idle"

\* the locals of one loop iteration go out of scope (main.go:152, 200)
ResetLocals ==
    /\ remote' = IdleRemote
    /\ domChunks' = <<>>
    /\ parseDescription' = <<>>
    /\ clientOpen' = FALSE
    /\ clientsCreated' = 0
    /\ results' = <<>>
    /\ parseI' = 0
    /\ inflight' = FALSE
    /\ calls' = <<>>
    /\ events' = <<>>
    /\ ret' = IdleRet
    /\ parsePc' = "idle"

\* a pipeline error handled with log.Fatal, as main.go:156 handles the URL
FailIterationFatal(msg, err) ==
    /\ stdout' = Append(stdout, <<msg, err>>)
    /\ mainPc' = "done"
    /\ exitCode' = "fatal"
    /\ ResetLocals
    /\ UNCHANGED <<apiKey, iter, deferred, signalChan, sigAt, listenerPc>>
    /\ UNCHANGED <<splitVars, wrapVars>>

\* main.go:169-172, 175-178, 186-189, 194-197: fmt.Println(msg, err); continue
FailIteration(msg, err) ==
    /\ stdout' = Append(stdout, <<msg, err>>)
    /\ mainPc' = "prompt"
    /\ ResetLocals
    /\ UNCHANGED <<apiKey, iter, deferred, signalChan, sigAt, listenerPc,
                   exitCode>>
    /\ UNCHANGED <<splitVars, wrapVars>>

\* main.go:153-157: the prompt is printed and reading the URL fails
MainReadUrlFail ==
    /\ exitCode = "running"
    /\ mainPc = "prompt"
    /\ stdout' = Append(stdout, <<"Enter the website URL", <<>>>>)
    /\ mainPc' = "done"
    /\ exitCode' = "fatal"
    /\ UNCHANGED <<iter, deferred, signalChan, sigAt, listenerPc>>
    /\ UNCHANGED <<splitVars, wrapVars, parseVars>>

\* main.go:153-163: the line read is the exit command; main returns
MainExit ==
    /\ exitCode = "running"
    /\ mainPc = "prompt"
    /\ \E line \in UrlLines :
        /\ IsExit(line)
        /\ stdout' = stdout \o <<<<"Enter the website URL", <<>>>>,
                                 <<"Exiting application.", <<>>>>>>
    /\ mainPc' = "done"
    /\ exitCode' = "return"
    /\ UNCHANGED <<iter, deferred, signalChan, sigAt, listenerPc>>
    /\ UNCHANGED <<splitVars, wrapVars, parseVars>>

\* main.go:153-166: a URL is read; a browser context is made, cancel deferred
MainReadUrl ==
    /\ exitCode = "running"
    /\ mainPc = "prompt"
    /\ iter < MaxIters
    /\ \E line \in UrlLines :
        /\ ~IsExit(line)
        /\ stdout' = Append(stdout, <<"Enter the website URL", <<>>>>)
    /\ iter' = iter + 1
    /\ deferred' = deferred + 1
    /\ mainPc' = "scrape"
    /\ UNCHANGED <<signalChan, sigAt, listenerPc, exitCode>>
    /\ UNCHANGED <<splitVars, wrapVars, parseVars>>

\* main.go:168, 28-30: scrapeWebsite prints its notice and chromedp.Run blocks
MainScrapeStart ==
    /\ exitCode = "running"
    /\ mainPc = "scrape"
    /\ stdout' = Append(stdout, <<"Scraping website, please wait...", <<>>>>)
    /\ mainPc' = "scraping"
    /\ UNCHANGED <<iter, deferred, signalChan, sigAt, listenerPc, exitCode>>
    /\ UNCHANGED <<splitVars, wrapVars, parseVars>>

\* main.go:168-172, 34-36: chromedp.Run fails
MainScrapeFail ==
    /\ exitCode = "running"
    /\ mainPc = "scraping"
    /\ FailIteration("Error scraping website:",
                     [msg |-> "failed to scrape website", index |-> 0,
                      cause |-> "chromedp"])

\* main.go:168, 37: the page is fetched
MainScrapeOk ==
    /\ exitCode = "running"
    /\ mainPc = "scraping"
    /\ mainPc' = "extract"
    /\ UNCHANGED <<iter, stdout, deferred, signalChan, sigAt, listenerPc,
                   exitCode>>
    /\ UNCHANGED <<splitVars, wrapVars, parseVars>>

\* main.go:174-178, 40-44: the HTML cannot be parsed
MainExtractFail ==
    /\ exitCode = "running"
    /\ mainPc = "extract"
    /\ FailIteration("Error extracting body content:",
                     [msg |-> "failed to parse HTML content", index |-> 0,
                      cause |-> "goquery"])

\* main.go:174-184: body extracted and cleaned, the text split into chunks,
\* the description prompt printed
MainExtractOk ==
    /\ exitCode = "running"
    /\ mainPc = "extract"
    /\ \E cleanedContent \in MainDocs :
        domChunks' = splitDOMContent(cleanedContent, chunkLength)
    /\ stdout' = Append(stdout, <<"Describe what you want to parse", <<>>>>)
    /\ mainPc' = "describe"
    /\ UNCHANGED <<apiKey, remote, parseDescription, clientOpen, clientsCreated,
                   results, parseI, inflight, calls, events, ret, parsePc>>
    /\ UNCHANGED <<iter, deferred, signalChan, sigAt, listenerPc, exitCode>>
    /\ UNCHANGED <<splitVars, wrapVars>>

\* main.go:185-189: reading the description fails
MainDescribeFail ==
    /\ exitCode = "running"
    /\ mainPc = "describe"
    /\ FailIteration("Error reading parse description:",
                     [msg |-> "read", index |-> 0, cause |-> "stdin"])

\* main.go:185-193: the description is read and trimmed; parseWithGenAI is
\* entered
MainDescribeOk ==
    /\ exitCode = "running"
    /\ mainPc = "describe"
    /\ \E line \in DescriptionLines : parseDescription' = TrimSpace(line)
    /\ remote' \in MainRemotes
    /\ stdout' = Append(stdout, <<"Processing your request, please wait...", <<>>>>)
    /\ parsePc' = "entry"
    /\ mainPc' = "parse"
    /\ UNCHANGED <<apiKey, domChunks, clientOpen, clientsCreated, results,
                   parseI, inflight, calls, events, ret>>
    /\ UNCHANGED <<iter, deferred, signalChan, sigAt, listenerPc, exitCode>>
    /\ UNCHANGED <<splitVars, wrapVars>>

\* main.go:193-197: parseWithGenAI returned an error
MainParseFail ==
    /\ exitCode = "running"
    /\ mainPc = "parse"
    /\ parsePc = "returned"
    /\ ret.err # NoError
    /\ FailIteration("Error parsing content:", ret.err)

\* main.go:193, 199-200: the result is wrapped and printed
MainPrintResult ==
    /\ exitCode = "running"
    /\ mainPc = "parse"
    /\ parsePc = "returned"
    /\ ret.err = NoError
    /\ stdout' = Append(stdout,
                   <<"Parsed Result:", printFormatted(ret.val, lineWidthMain)>>)
    /\ mainPc' = "prompt"
    /\ ResetLocals
    /\ UNCHANGED <<apiKey, iter, deferred, signalChan, sigAt, listenerPc,
                   exitCode>>
    /\ UNCHANGED <<splitVars, wrapVars>>

\* a SIGINT or SIGTERM arrives and is queued on signalChan (main.go:143-144)
SignalDeliver ==
    /\ exitCode = "running"
    /\ signalChan = 0
    /\ listenerPc = "waiting"
    /\ signalChan' = 1
    /\ sigAt' = (IF mainPc = "parse" THEN parsePc ELSE mainPc)
    /\ UNCHANGED <<mainPc, iter, stdout, deferred, listenerPc, exitCode>>
    /\ UNCHANGED <<splitVars, wrapVars, parseVars>>

\* main.go:147: the listener goroutine receives from signalChan
ListenerReceive ==
    /\ exitCode = "running"
    /\ listenerPc = "waiting"
    /\ signalChan = 1
    /\ signalChan' = 0
    /\ listenerPc' = "received"
    /\ UNCHANGED <<mainPc, iter, stdout, deferred, sigAt, exitCode>>
    /\ UNCHANGED <<splitVars, wrapVars, parseVars>>

\* main.go:148-149: the listener prints and ends the process with os.Exit(0)
ListenerExit ==
    /\ exitCode = "running"
    /\ listenerPc = "received"
    /\ stdout' = Append(stdout, <<"Received shutdown signal, exiting...", <<>>>>)
    /\ listenerPc' = "done"
    /\ exitCode' = "exit0"
    /\ UNCHANGED <<mainPc, iter, deferred, signalChan, sigAt>>
    /\ UNCHANGED <<splitVars, wrapVars, parseVars>>

-----------------------------------------------------------------------------
(* Specifications *)

SplitIdle ==
    /\ domContent = <<>> /\ maxLength = 1 /\ splitI = 0 /\ chunks = <<>>
    /\ splitPc = "idle"

WrapIdle ==
    /\ wrapInput = <<>> /\ text = <<>> /\ lineWidth = 1 /\ result = <<>>
    /\ wrapPc = "idle"

MainIdle ==
    /\ mainPc = "idle" /\ iter = 0 /\ stdout = <<>> /\ deferred = 0
    /\ signalChan = 0 /\ sigAt = "none" /\ listenerPc = "idle"
    /\ exitCode = "running"

\* splitDOMContent called on a document and a chunk length
InitSplit ==
    /\ domContent \in StringsUpTo(InputBytes, MaxDocLen)
    /\ maxLength \in (0 - 1)..MaxLen
    /\ splitI = 0
    /\ chunks = <<>>
    /\ splitPc = "loop"
    /\ WrapIdle /\ ParseLocalsIdle /\ apiKey = FALSE /\ MainIdle

NextSplit == SplitAppend \/ SplitPanic \/ SplitReturn

SpecSplit == InitSplit /\ [][NextSplit]_vars

\* printFormatted called on a text and a positive line width
InitWrap ==
    /\ wrapInput \in StringsUpTo(InputBytes, MaxDocLen)
    /\ text = wrapInput
    /\ lineWidth \in 1..MaxLen
    /\ result = <<>>
    /\ wrapPc = "loop"
    /\ SplitIdle /\ ParseLocalsIdle /\ apiKey = FALSE /\ MainIdle

NextWrap == WrapFull \/ WrapLast \/ WrapReturn

SpecWrap == InitWrap /\ [][NextWrap]_vars

\* instructions passed to parseWithGenAI: "" and "x"
Instructions == {<<>>, <<120>>}

\* the chunk list of n one-byte chunks 'a', 'b', 'c', ...
ChunkList(n) == splitDOMContent([k \in 1..n |-> 96 + k], 1)

\* parseWithGenAI called on a chunk list and an instruction
InitParse ==
    /\ apiKey \in BOOLEAN
    /\ domChunks \in {ChunkList(n) : n \in 0..MaxBatch}
    /\ remote \in {r \in Remotes(MaxBatch) : r.failAt <= Len(domChunks)}
    /\ parseDescription \in Instructions
    /\ clientOpen = FALSE
    /\ clientsCreated = 0
    /\ results = <<>>
    /\ parseI = 0
    /\ inflight = FALSE
    /\ calls = <<>>
    /\ events = <<>>
    /\ ret = IdleRet
    /\ parsePc = "entry"
    /\ SplitIdle /\ WrapIdle /\ MainIdle

NextParse ==
    \/ ParseNoKey \/ ParseClientFail \/ ParseClientOk
    \/ ParseCallStart \/ ParseCallOk \/ ParseCallFail \/ ParseReturn

SpecParse == InitParse /\ [][NextParse]_vars

\* the process after main.go:140-150: the listener goroutine waits, the loop
\* is about to prompt
Init ==
    /\ apiKey \in BOOLEAN
    /\ ParseLocalsIdle
    /\ mainPc = "prompt"
    /\ iter = 0
    /\ stdout = <<>>
    /\ deferred = 0
    /\ signalChan = 0
    /\ sigAt = "none"
    /\ listenerPc = "waiting"
    /\ exitCode = "running"
    /\ SplitIdle /\ WrapIdle

Next ==
    \/ MainReadUrlFail \/ MainExit \/ MainReadUrl
    \/ MainScrapeStart \/ MainScrapeFail \/ MainScrapeOk
    \/ MainExtractFail \/ MainExtractOk
    \/ MainDescribeFail \/ MainDescribeOk
    \/ ParseNoKey \/ ParseClientFail \/ ParseClientOk
    \/ ParseCallStart \/ ParseCallOk \/ ParseCallFail \/ ParseReturn
    \/ MainParseFail \/ MainPrintResult
    \/ SignalDeliver \/ ListenerReceive \/ ListenerExit

Spec == Init /\ [][Next]_vars

-----------------------------------------------------------------------------
(* Properties of splitDOMContent, checked under SpecSplit *)

\* ceil(n / L) for L > 0
CeilDiv(n, L) == (n + L - 1) \div L

\* C1: for every document and every positive chunk length, the chunks
\* returned by splitDOMContent, concatenated in list order, are the document.
C1_RoundTrip ==
    (splitPc = "returned" /\ maxLength > 0) => Concat(chunks) = domContent

\* a call with a positive length returned several chunks, the last one short
C1_Witness ==
    /\ splitPc = "returned"
    /\ maxLength > 1
    /\ Len(chunks) >= 2
    /\ Len(chunks[Len(chunks)]) < maxLength

\* C2: for a positive chunk length L, splitDOMContent returns ceil(len/L)
\* chunks, none for the empty document; chunk k (0-based) is the bytes at
\* offsets [k*L, min((k+1)*L, len)), so every chunk but the last has length
\* L and no chunk is empty.
C2_ChunkLayout ==
    (splitPc = "returned" /\ maxLength > 0) =>
        LET n == Len(domContent)
            L == maxLength
        IN  /\ Len(chunks) = CeilDiv(n, L)
            /\ (n = 0 => chunks = <<>>)
            /\ \A k \in 0..(Len(chunks) - 1) :
                /\ chunks[k + 1] = Slice(domContent, k * L, min((k + 1) * L, n))
                /\ Len(chunks[k + 1]) >= 1
                /\ (k + 1 < Len(chunks) => Len(chunks[k + 1]) = L)

\* a four-byte document split at three bytes has returned two chunks
C2_Witness ==
    /\ splitPc = "returned"
    /\ Len(domContent) = 4
    /\ maxLength = 3
    /\ Len(chunks) = 2

\* C3: a call with maxLength <= 0 is rejected: it runs no loop iteration,
\* never indexes out of range and never returns a chunk list as if the
\* argument were valid.
C3_NonPositiveRejected ==
    maxLength <= 0 =>
        /\ splitPc # "panic"
        /\ chunks = <<>>
        /\ splitPc # "returned"

-----------------------------------------------------------------------------
(* Properties of printFormatted, checked under SpecWrap *)

\* number of lines printFormatted emits for n bytes at width w
LineCount(n, w) == CeilDiv(n, w)

\* C8 (result): for a positive width the output is LineCount lines, each
\* followed by one newline; line k is the next min(width, remaining) bytes
\* of the text, so every line is at most width long, every line but the
\* last exactly width long, and the lines concatenated are the text; the
\* empty text gives the empty output.
C8_Output ==
    wrapPc = "returned" =>
        LET n == Len(wrapInput)
            w == lineWidth
            m == LineCount(n, w)
            lineLen(k) == min(w, n - (k - 1) * w)
            lineAt(k) == Slice(result, (k - 1) * (w + 1),
                               (k - 1) * (w + 1) + lineLen(k))
        IN  /\ Len(result) = n + m
            /\ (n = 0 => result = <<>>)
            /\ \A k \in 1..m :
                /\ lineAt(k) = Slice(wrapInput, (k - 1) * w,
                                     (k - 1) * w + lineLen(k))
                /\ result[(k - 1) * (w + 1) + lineLen(k) + 1] = NL
                /\ Len(lineAt(k)) <= w
                /\ (k < m => Len(lineAt(k)) = w)
            /\ Concat([k \in 1..m |-> lineAt(k)]) = wrapInput

\* C8: printFormatted terminates (every loop iteration shortens the text
\* still to be emitted) and its output is as C8_Output says.
C8_Wrap ==
    /\ []C8_Output
    /\ [][(wrapPc = "loop" /\ wrapPc' = "loop") => Len(text') < Len(text)]_vars

\* a text holding a newline of its own was wrapped into a full line and a
\* shorter last line
C8_Witness ==
    /\ wrapPc = "returned"
    /\ lineWidth = 3
    /\ Len(wrapInput) = 4
    /\ \E k \in 1..4 : wrapInput[k] = NL
    /\ Len(result) = 6

-----------------------------------------------------------------------------
(* Properties of parseWithGenAI, checked under SpecParse *)

\* the response the remote service gives to the k-th call of the batch
ResponseTo(k) == Response(ShapeOf(remote, k), k)

\* the chunks of a 100000-byte document split at 6000 bytes
ScenarioChunks == splitDOMContent(Doc(100000), 6000)

\* C4: with a credential and no failing call, min(n, 16) calls are issued
\* for n chunks; the k-th call carries the instruction and the k-th chunk;
\* call k+1 starts only after call k has completed; chunks after the 16th
\* are never submitted, so the 17 chunks of a 100000-byte document split at
\* 6000 bytes give 16 calls.
C4_SequentialCappedCalls ==
    /\ \A j \in 1..Len(events) :
        /\ events[j][2] = (j + 1) \div 2
        /\ (j % 2 = 1 => events[j][1] = "start")
        /\ (j % 2 = 0 => events[j][1] \in {"done", "failed"})
    /\ inflight = (Len(events) % 2 = 1)
    /\ Len(calls) = (Len(events) + 1) \div 2
    /\ Len(calls) <= 16
    /\ \A k \in 1..Len(calls) :
        calls[k] = [instruction |-> parseDescription, chunk |-> domChunks[k]]
    /\ (parsePc = "returned" /\ apiKey /\ ret.err = NoError) =>
        /\ Len(calls) = min(Len(domChunks), 16)
        /\ Len(events) = 2 * Len(calls)
        /\ (Len(domChunks) = Len(ScenarioChunks) =>
                Len(domChunks) = 17 /\ Len(calls) = 16)

\* a batch of 17 chunks has returned without error after 16 calls
C4_Witness ==
    /\ parsePc = "returned"
    /\ ret.err = NoError
    /\ Len(domChunks) = 17
    /\ Len(calls) = 16
    /\ parseDescription # <<>>

\* C5: when call k fails, no call is issued for a later chunk and chunk k
\* is not retried (exactly k calls were made), the error returned names
\* the 1-based index k and wraps the cause, the value returned is empty,
\* and nothing but progress lines has been printed.
C5_FirstFailureAborts ==
    (/\ parsePc = "returned"
     /\ apiKey
     /\ ~remote.clientErr
     /\ remote.failAt \in 1..min(Len(domChunks), 16)) =>
        LET k == remote.failAt IN
        /\ ret.err = [msg |-> "failed to generate content for chunk",
                      index |-> k, cause |-> "transport"]
        /\ ret.val = <<>>
        /\ Len(calls) = k
        /\ Len(results) = k - 1
        /\ events[Len(events)] = <<"failed", k>>
        /\ \A j \in 1..Len(stdout) : stdout[j][1] = "Processing chunk"
        /\ Len(stdout) = k

\* the third call of a batch failed after two calls had returned text
C5_Witness ==
    /\ parsePc = "returned"
    /\ ret.err.msg = "failed to generate content for chunk"
    /\ ret.err.index = 3
    /\ Len(results) = 2
    /\ results[1] # <<>>
    /\ Len(domChunks) > 3

\* C6: without a credential parseWithGenAI returns the configuration
\* error for every chunk list, the empty one included, before any client is
\* created and before any call is made; the error differs from a per-chunk
\* error.
C6_NoCredential ==
    ~apiKey =>
        /\ clientsCreated = 0
        /\ ~clientOpen
        /\ calls = <<>>
        /\ parsePc \in {"entry", "returned"}
        /\ parsePc = "returned" =>
            /\ ret = [val |-> <<>>, err |-> ErrNoKey]
            /\ \A i \in 0..MaxBatch : ret.err.msg # ErrChunk(i, "transport").msg
            /\ ret.err.msg # ErrClient("client").msg

\* the call returned without a credential, both for an empty and (in
\* another run) a non-empty chunk list; this is the empty one
C6_Witness ==
    /\ parsePc = "returned"
    /\ ~apiKey
    /\ domChunks = <<>>
    /\ ret.err = ErrNoKey

RECURSIVE AllParts(_)
\* the text parts of a response, candidate by candidate, in order
AllParts(cands) ==
    IF cands = <<>> THEN <<>>
    ELSE (IF Head(cands).hasContent THEN Head(cands).parts ELSE <<>>)
         \o AllParts(Tail(cands))

\* the text parts joined by newline separators
SeparatedText(cands) == Join(AllParts(cands), NL)

\* the text parts, each followed by a newline
TerminatedText(cands) ==
    LET ps == AllParts(cands)
    IN  Concat([j \in 1..Len(ps) |-> ps[j] \o <<NL>>])

\* the bytes of "OK-1\nOK-2\nOK-3"
ThreeOKSeparated ==
    <<79, 75, 45, 49, 10, 79, 75, 45, 50, 10, 79, 75, 45, 51>>

\* the bytes of "OK-1\n\nOK-2\n\nOK-3\n"
ThreeOKTerminated ==
    <<79, 75, 45, 49, 10, 10, 79, 75, 45, 50, 10, 10, 79, 75, 45, 51, 10>>

\* a batch of three chunks answered by the single texts OK-1, OK-2, OK-3
ThreeOKBatch ==
    /\ Len(domChunks) = 3
    /\ \A k \in 1..3 : AllParts(ResponseTo(k)) = <<OKText(k)>>

\* C7 as stated: when every call succeeds the value returned is the
\* per-chunk results joined by one newline, each per-chunk result being the
\* response's text parts joined by newline separators; three chunks answered
\* OK-1, OK-2, OK-3 give "OK-1\nOK-2\nOK-3".
C7_AsStated ==
    (parsePc = "returned" /\ apiKey /\ ret.err = NoError) =>
        LET m == min(Len(domChunks), 16) IN
        /\ ret.val = Join([k \in 1..m |-> SeparatedText(ResponseTo(k))], NL)
        /\ (ThreeOKBatch => ret.val = ThreeOKSeparated)

\* C7 amended: when every call succeeds the value returned is the per-chunk
\* results in batch order joined by one newline, each per-chunk result being
\* the response's text parts each followed by a newline (empty when the
\* response has no candidates or parts); three chunks answered OK-1, OK-2,
\* OK-3 give "OK-1\n\nOK-2\n\nOK-3\n".
C7_Aggregate ==
    (parsePc = "returned" /\ apiKey /\ ret.err = NoError) =>
        LET m == min(Len(domChunks), 16) IN
        /\ Len(results) = m
        /\ \A k \in 1..m : results[k] = TerminatedText(ResponseTo(k))
        /\ ret.val = Join([k \in 1..m |-> TerminatedText(ResponseTo(k))], NL)
        /\ (ThreeOKBatch => ret.val = ThreeOKTerminated)

\* the batch of three chunks answered OK-1, OK-2, OK-3 has returned
C7_Witness ==
    /\ parsePc = "returned"
    /\ ret.err = NoError
    /\ apiKey
    /\ ThreeOKBatch
    /\ ret.val = ThreeOKTerminated

-----------------------------------------------------------------------------
(* Properties of main, checked under Spec *)

Last(s) == s[Len(s)]

\* the messages main prints when a pipeline step fails (main.go:170, 176,
\* 187, 195)
IsErrorLine(e) ==
    e[1] \in {"Error scraping website:", "Error extracting body content:",
              "Error reading parse description:", "Error parsing content:"}

\* the positions of the main goroutine inside one iteration's pipeline
PipelinePositions == {"scrape", "scraping", "extract", "describe", "parse"}

\* the position that follows p when the step at p succeeds
NextStage(p) ==
    CASE p = "scrape" -> "scraping"
      [] p = "scraping" -> "extract"
      [] p = "extract" -> "describe"
      [] p = "describe" -> "parse"
      [] OTHER -> "prompt"

\* what stdout shows about failed iterations
C9_Log ==
    \A j \in 1..Len(stdout) :
        IsErrorLine(stdout[j]) =>
            \* the iteration printed no parsed result before the error
            /\ \A i \in 1..(j - 1) :
                stdout[i][1] = "Parsed Result:" =>
                    \E p \in (i + 1)..(j - 1) :
                        stdout[p][1] = "Enter the website URL"
            \* what follows is the next URL prompt (or the listener's notice)
            /\ j < Len(stdout) =>
                stdout[j + 1][1] \in {"Enter the website URL",
                                      "Received shutdown signal, exiting..."}
            \* right after the error the loop is at the prompt, the process
            \* runs and every local of the iteration is as in a first one
            /\ j = Len(stdout) =>
                /\ mainPc = "prompt"
                /\ exitCode = "running"
                /\ ParseLocalsIdle

\* what a step of the main goroutine inside the pipeline may do
C9_Step ==
    /\ (mainPc \in PipelinePositions /\ mainPc' # mainPc) =>
        \/ mainPc' = NextStage(mainPc) /\ mainPc # "parse"
        \/ /\ mainPc' = "prompt"
           /\ exitCode' = "running"
           /\ Len(stdout') = Len(stdout) + 1
           /\ IF mainPc = "parse" /\ parsePc = "returned" /\ ret.err = NoError
              THEN Last(stdout')[1] = "Parsed Result:"
              ELSE IsErrorLine(Last(stdout'))
    /\ (mainPc = "parse" /\ parsePc = "returned" /\ ret.err # NoError) =>
        /\ exitCode' \in {"running", "exit0"}
        /\ mainPc' \in {"parse", "prompt"}

\* C9: whenever a pipeline step of an iteration fails, the iteration prints
\* an error message and no parsed result, the loop goes back to the URL
\* prompt, the process neither exits nor crashes because of it, and the
\* locals of the iteration are as before a first iteration.
C9_ErrorsContinue == []C9_Log /\ [][C9_Step]_vars

\* a chunk call failed in one iteration and a later iteration printed a
\* parsed result
C9_Witness ==
    /\ Len(stdout) > 0
    /\ Last(stdout)[1] = "Parsed Result:"
    /\ \E j \in 1..Len(stdout) :
        /\ stdout[j][1] = "Error parsing content:"
        /\ stdout[j][2].msg = "failed to generate content for chunk"

\* the signal was delivered while parseWithGenAI was running
SignalDuringBatch == sigAt \in {"entry", "loop", "call"}

\* C10: once a termination signal has been delivered during a batch, no
\* further chunk call is started, the call in flight is aborted (it returns
\* no response to the loop), and no parsed result is ever printed that was
\* built from fewer chunks than the batch.
C10_SignalStopsBatch ==
    [][/\ (SignalDuringBatch /\ mainPc = "parse") =>
            /\ Len(calls') <= Len(calls)
            /\ Len(results') <= Len(results)
       /\ (Len(stdout') > Len(stdout) /\ Last(stdout')[1] = "Parsed Result:") =>
            /\ Len(results) = min(Len(domChunks), 16)
            /\ Last(stdout')[2] = printFormatted(Join(results, NL), 80)]_vars

=============================================================================
